---- MODULE Spec2Model ----
(***************************************************************************)
(* leafOS early boot: the UEFI entry routine main() of the kernel, its     *)
(* module initializers, the boot-service exit handshake, the steady-state  *)
(* loop, and the serial diagnostic channel (debug_putc / debug_puts).      *)
(*                                                                         *)
(* The specifications share the variables:                                 *)
(*   Spec         one booted run: _init, main(), _fini if main returns.    *)
(*                Every debug_puts call of main is one entry of the serial *)
(*                log, firmware calls are recorded in fwCalls, and the     *)
(*                heartbeat debug_putc('.') of the loop runs at byte level.*)
(*   FairSpec     Spec with the fairness of sequential execution.          *)
(*   SpecPrint    Spec with uefi_print called at some point of the run.    *)
(*   SpecPuts     one call of debug_puts at byte level, with the polling   *)
(*                of the UART status flag; FairSpecPuts adds fairness.     *)
(*   SpecCtors    one call of _init or _fini over any linker array.        *)
(*   SpecAssert   one call of kernel_assert.                               *)
(***************************************************************************)
EXTENDS Integers, Sequences, FiniteSets, TLC

VARIABLES
    pc,            \* position of main()
    argSystemTable,\* main's parameter SystemTable (an opaque table identity)
    argImageHandle,\* main's parameter ImageHandle
    gSystemTable,  \* globals of lines 19-21; 0 is nullptr
    gImageHandle,
    gBootServices,
    invoked,       \* initializers invoked so far, in order
    result,        \* what each initializer returned: "none", "ok", "fail"
    serial,        \* debug_puts / debug_putc calls made by main and the initializers
    fwCalls,       \* calls made through the boot-services table
    mapSize,       \* locals of main, lines 336-342
    mapKey,
    status,
    retval,        \* value main returned to the firmware loader, NoReturn if none
    beats,         \* iterations of the steady-state loop so far
    str,           \* debug_puts: the bytes of the C string, terminator included
    sp,            \* debug_puts: index of *str (1-based)
    ppc,           \* debug_puts / debug_putc: position
    frames,        \* debug_putc: arguments of the active calls, innermost last
    lsr,           \* debug_putc: the value last read from *uart
    tx,            \* bytes written to *uart, in order
    boot,          \* position of the startup code around main: "_init", "main", "_fini"
    initArray,     \* __init_array_start .. __init_array_end, 0 is a null entry
    finiArray,     \* __fini_array_start .. __fini_array_end
    ip,            \* _init / _fini: index of the entry ctor / dtor points at (1-based)
    ctorCalls,     \* constructors invoked by _init, in order, with their index
    dtorCalls,     \* destructors invoked by _fini
    prints,        \* uefi_print calls made so far
    conOut,        \* OutputString calls made through gSystemTable->ConOut
    apc,           \* position of kernel_assert
    aCond,         \* kernel_assert: parameters condition, file, line
    aFile,
    aLine,
    lineStr,       \* kernel_assert: char lineStr[16], indexed from 0
    ai,            \* kernel_assert: locals i, n, j
    an,
    aj,
    aout,          \* kernel_assert: debug_puts / debug_putc calls it made, in order
    hlts           \* kernel_assert: hlt instructions executed

mainVars == <<pc, argSystemTable, argImageHandle, gSystemTable, gImageHandle,
              gBootServices, invoked, result, serial, fwCalls, mapSize, mapKey,
              status, retval, beats>>
putsVars == <<str, sp, ppc, frames, lsr, tx>>
bootVars == <<boot, initArray, finiArray, ip, ctorCalls, dtorCalls>>
printVars == <<prints, conOut>>
assertVars == <<apc, aCond, aFile, aLine, lineStr, ai, an, aj, aout, hlts>>
vars == <<mainVars, putsVars, bootVars, printVars, assertVars>>

(***************************************************************************)
(* Bounds of the model.                                                    *)
(***************************************************************************)
MaxKey == 2          \* map keys the firmware hands out are 0..MaxKey
MaxBeats == 2        \* heartbeats of the steady-state loop that are followed
MaxLen == 3          \* longest string given to debug_puts
MaxArr == 2          \* longest constructor / destructor array
MaxPrints == 1       \* uefi_print calls that are followed
MaxLine == 110       \* kernel_assert is called with every line 0..MaxLine
MaxHlts == 2         \* hlt instructions of kernel_assert that are followed

(***************************************************************************)
(* EFI_STATUS is UINTN, 64 bits on x86_64.  A status is kept as its top    *)
(* bit (hi) and its low 63 bits (lo): value = hi * 2^63 + lo.              *)
(***************************************************************************)
St(h, l) == [hi |-> h, lo |-> l]

EFI_SUCCESS == St(0, 0)
EFI_INVALID_PARAMETER == St(0, 2)
EFI_BUFFER_TOO_SMALL == St(0, 5)
EFI_DEVICE_ERROR == St(0, 7)
EFI_OUT_OF_RESOURCES == St(0, 9)

\* #define EFI_ERROR(Status) ((INTN)(Status) < 0): the sign bit of the 64-bit value
EFI_ERROR_AnyNonZero(Status) == Status # St(0, 0)
EFI_ERROR(Status) == Status.hi = 1

\* Statuses a boot-services call may return: the header's codes, and the same
\* codes with the top bit set as the UEFI wire contract encodes errors.
FwStatus == [hi : {0, 1}, lo : {0, 2, 5, 7, 9}]

KeySet == 0..MaxKey
\* retval while main has not returned: no UINTN value
NoReturn == St(-1, -1)

Modules == <<"memory", "devices", "filesystem", "graphics", "hot_services">>
ModuleSet == {Modules[i] : i \in 1..Len(Modules)}

\* The system tables main can be entered with: an identity, and the
\* BootServices sub-table it points to.  0 is nullptr.
SystemTables == {1, 2}
BootServicesOf(st) == st + 10
ImageHandles == {1, 2}

(***************************************************************************)
(* Helpers over the logs.                                                  *)
(***************************************************************************)
Puts(log, msgs) == log \o msgs

RECURSIVE Count(_, _)
Count(s, x) ==
    IF s = <<>> THEN 0
    ELSE (IF Head(s) = x THEN 1 ELSE 0) + Count(Tail(s), x)

Range(s) == {s[i] : i \in 1..Len(s)}


(***************************************************************************)
(* The serial diagnostic channel at byte level, lines 84-109.              *)
(***************************************************************************)
LF == 10             \* '\n'
CR == 13             \* '\r'
THRE == 32           \* 0x20, the transmit-buffer-empty bit tested on *uart

\* the non-zero bytes strings are made of: '\n', '\r', '.', and a byte of a
\* UTF-8 sequence (the messages of this kernel are UTF-8 Chinese text)
Bytes == {LF, CR, 46, 229}

\* values a read of *uart may give: the flag clear or set, other bits clear or set
UartReads == {0, 32, 64, 96}

RECURSIVE SeqsUpTo(_, _)
SeqsUpTo(S, n) ==
    IF n = 0 THEN {<<>>}
    ELSE LET shorter == SeqsUpTo(S, n - 1)
         IN  shorter \cup {Append(q, b) : q \in shorter, b \in S}

\* null-terminated strings of at most MaxLen characters
CStrings == {Append(q, 0) : q \in SeqsUpTo(Bytes, MaxLen)}

\* a byte of memory read through const char*: char is signed on x86_64
ToChar(b) == IF b >= 128 THEN b - 256 ELSE b
\* a char stored through volatile uint8_t*
ToUint8(c) == c % 256

\* (*uart & 0x20)
FlagSet_WrongBit(v) == (v \div 16) % 2 = 1
FlagSet(v) == (v \div THRE) % 2 = 1

\* debug_puts, lines 106-108: test *str; call debug_putc(*str++) or return
DebugPuts ==
    /\ ppc = "puts"
    /\ IF str[sp] # 0
       THEN /\ frames' = <<ToChar(str[sp])>>
            /\ sp' = sp + 1
            /\ ppc' = "poll"
       ELSE /\ ppc' = "done"
            /\ UNCHANGED <<frames, sp>>
    /\ UNCHANGED <<str, lsr, tx, mainVars, bootVars, printVars, assertVars>>

\* debug_putc, line 89: one read of *uart in the busy wait
DebugPutcPoll ==
    /\ ppc = "poll"
    /\ \E v \in UartReads :
         /\ lsr' = v
         /\ ppc' = IF FlagSet(v) THEN "write" ELSE "poll"
    /\ UNCHANGED <<str, sp, frames, tx, mainVars, bootVars, printVars, assertVars>>

\* where debug_putc returns to: the loop of main (line 381) when main is in
\* it, debug_puts (line 107) otherwise
ReturnSite == IF pc = "loop" THEN "idle" ELSE "puts"

\* debug_putc, line 89 with the flag found set: the busy wait ends
PollFlagSet == DebugPutcPoll /\ FlagSet(lsr')

\* debug_putc, lines 92-98: write the byte; after '\n' call debug_putc('\r'),
\* otherwise return (through the caller's frame too, the call being its last
\* statement)
DebugPutcWrite_NoCarriageReturn ==
    /\ ppc = "write"
    /\ tx' = Append(tx, ToUint8(frames[Len(frames)]))
    /\ frames' = <<>>
    /\ ppc' = ReturnSite
    /\ UNCHANGED <<str, sp, lsr, mainVars, bootVars, printVars, assertVars>>

DebugPutcWrite_CRWithoutPoll ==
    /\ ppc = "write"
    /\ tx' = Append(tx, ToUint8(frames[Len(frames)]))
    /\ IF frames[Len(frames)] = LF
       THEN /\ frames' = Append(frames, CR)
            /\ ppc' = "write"
       ELSE /\ frames' = <<>>
            /\ ppc' = ReturnSite
    /\ UNCHANGED <<str, sp, lsr, mainVars, bootVars, printVars, assertVars>>

DebugPutcWrite ==
    /\ ppc = "write"
    /\ tx' = Append(tx, ToUint8(frames[Len(frames)]))
    /\ IF frames[Len(frames)] = LF
       THEN /\ frames' = Append(frames, CR)
            /\ ppc' = "poll"
       ELSE /\ frames' = <<>>
            /\ ppc' = ReturnSite
    /\ UNCHANGED <<str, sp, lsr, mainVars, bootVars, printVars, assertVars>>

(***************************************************************************)
(* Entries of the serial log: who wrote the line, what kind of line it is  *)
(* ("info", "warning" = [警告], "error" = [错误], "beat" = the '.' of the  *)
(* loop), and what it is about.                                            *)
(***************************************************************************)
Msg(who, kind, about) == [who |-> who, kind |-> kind, about |-> about]

\* One boot-services call as the firmware saw it and answered it.
FwCall(fn, buffer, handle, keyIn, keyOut, st) ==
    [fn |-> fn, buffer |-> buffer, handle |-> handle,
     keyIn |-> keyIn, keyOut |-> keyOut, status |-> st]

(***************************************************************************)
(* The initializers, lines 192-263.  Each prints a first line, does its    *)
(* (not yet written) work, prints a completion line and returns true.  The *)
(* work is a black box to main: its boolean result ok is an input here,    *)
(* and a failing initializer returns from the work before the completion   *)
(* line.                                                                   *)
(***************************************************************************)
InitializerLines(m, ok) ==
    IF ok THEN <<Msg(m, "info", "begin"), Msg(m, "info", "done")>>
    ELSE <<Msg(m, "info", "begin")>>

CallInitializer(m, ok) ==
    /\ invoked' = Append(invoked, m)
    /\ result' = [result EXCEPT ![m] = IF ok THEN "ok" ELSE "fail"]

(***************************************************************************)
(* main, lines 279-386.                                                    *)
(***************************************************************************)
\* lines 286-300: capture of the firmware references, banner
MainCapture_NoBootServices ==
    /\ pc = "entry"
    /\ gSystemTable' = argSystemTable
    /\ gImageHandle' = argImageHandle
    /\ serial' = Puts(serial, <<Msg("main", "info", "banner_top"),
                                Msg("main", "info", "banner_title"),
                                Msg("main", "info", "banner_bottom"),
                                Msg("main", "info", "modules_begin")>>)
    /\ pc' = "init_memory_manager"
    /\ UNCHANGED <<argSystemTable, argImageHandle, gBootServices, invoked, result,
                   fwCalls, mapSize, mapKey, status, retval, beats, putsVars,
                   bootVars, printVars, assertVars>>

MainCapture ==
    /\ pc = "entry"
    /\ gSystemTable' = argSystemTable
    /\ gImageHandle' = argImageHandle
    /\ gBootServices' = BootServicesOf(argSystemTable)
    /\ serial' = Puts(serial, <<Msg("main", "info", "banner_top"),
                                Msg("main", "info", "banner_title"),
                                Msg("main", "info", "banner_bottom"),
                                Msg("main", "info", "modules_begin")>>)
    /\ pc' = "init_memory_manager"
    /\ UNCHANGED <<argSystemTable, argImageHandle, invoked, result, fwCalls,
                   mapSize, mapKey, status, retval, beats, putsVars, bootVars, printVars, assertVars>>

\* lines 302-306: memory manager, failure returns EFI_OUT_OF_RESOURCES
MainInitMemory_ContinuePastFatal ==
    /\ pc = "init_memory_manager"
    /\ \E ok \in BOOLEAN :
         /\ CallInitializer("memory", ok)
         /\ IF ok
            THEN /\ serial' = Puts(serial, InitializerLines("memory", ok))
            ELSE /\ serial' = Puts(serial, InitializerLines("memory", ok)
                                   \o <<Msg("main", "error", "memory")>>)
         /\ pc' = "init_device_drivers"
         /\ retval' = retval
    /\ UNCHANGED <<argSystemTable, argImageHandle, gSystemTable, gImageHandle,
                   gBootServices, fwCalls, mapSize, mapKey, status, beats, putsVars, bootVars, printVars, assertVars>>

MainInitMemory_WrongSignal ==
    /\ pc = "init_memory_manager"
    /\ \E ok \in BOOLEAN :
         /\ CallInitializer("memory", ok)
         /\ IF ok
            THEN /\ serial' = Puts(serial, InitializerLines("memory", ok))
                 /\ pc' = "init_device_drivers"
                 /\ retval' = retval
            ELSE /\ serial' = Puts(serial, InitializerLines("memory", ok)
                                   \o <<Msg("main", "error", "memory")>>)
                 /\ pc' = "returned"
                 /\ retval' = EFI_DEVICE_ERROR
    /\ UNCHANGED <<argSystemTable, argImageHandle, gSystemTable, gImageHandle,
                   gBootServices, fwCalls, mapSize, mapKey, status, beats, putsVars, bootVars, printVars, assertVars>>

MainInitMemory ==
    /\ pc = "init_memory_manager"
    /\ \E ok \in BOOLEAN :
         /\ CallInitializer("memory", ok)
         /\ IF ok
            THEN /\ serial' = Puts(serial, InitializerLines("memory", ok))
                 /\ pc' = "init_device_drivers"
                 /\ retval' = retval
            ELSE /\ serial' = Puts(serial, InitializerLines("memory", ok)
                                   \o <<Msg("main", "error", "memory")>>)
                 /\ pc' = "returned"
                 /\ retval' = EFI_OUT_OF_RESOURCES
    /\ UNCHANGED <<argSystemTable, argImageHandle, gSystemTable, gImageHandle,
                   gBootServices, fwCalls, mapSize, mapKey, status, beats, putsVars, bootVars, printVars, assertVars>>

\* lines 308-311: device drivers, failure is a warning
MainInitDevices_TreatAsFatal ==
    /\ pc = "init_device_drivers"
    /\ \E ok \in BOOLEAN :
         /\ CallInitializer("devices", ok)
         /\ IF ok
            THEN /\ serial' = Puts(serial, InitializerLines("devices", ok))
                 /\ pc' = "init_file_system"
                 /\ retval' = retval
            ELSE /\ serial' = Puts(serial, InitializerLines("devices", ok)
                                   \o <<Msg("main", "warning", "devices")>>)
                 /\ pc' = "returned"
                 /\ retval' = EFI_DEVICE_ERROR
    /\ UNCHANGED <<argSystemTable, argImageHandle, gSystemTable, gImageHandle,
                   gBootServices, fwCalls, mapSize, mapKey, status, beats, putsVars, bootVars, printVars, assertVars>>

MainInitDevices_SkipFileSystem ==
    /\ pc = "init_device_drivers"
    /\ \E ok \in BOOLEAN :
         /\ CallInitializer("devices", ok)
         /\ serial' = Puts(serial, InitializerLines("devices", ok)
                           \o (IF ok THEN <<>>
                               ELSE <<Msg("main", "warning", "devices")>>))
    /\ pc' = "init_graphics"
    /\ UNCHANGED <<argSystemTable, argImageHandle, gSystemTable, gImageHandle,
                   gBootServices, fwCalls, mapSize, mapKey, status, retval, beats,
                   putsVars, bootVars, printVars, assertVars>>

MainInitDevices ==
    /\ pc = "init_device_drivers"
    /\ \E ok \in BOOLEAN :
         /\ CallInitializer("devices", ok)
         /\ serial' = Puts(serial, InitializerLines("devices", ok)
                           \o (IF ok THEN <<>>
                               ELSE <<Msg("main", "warning", "devices")>>))
    /\ pc' = "init_file_system"
    /\ UNCHANGED <<argSystemTable, argImageHandle, gSystemTable, gImageHandle,
                   gBootServices, fwCalls, mapSize, mapKey, status, retval, beats,
                   putsVars, bootVars, printVars, assertVars>>

\* lines 313-316: file system, failure is a warning
MainInitFileSystem ==
    /\ pc = "init_file_system"
    /\ \E ok \in BOOLEAN :
         /\ CallInitializer("filesystem", ok)
         /\ serial' = Puts(serial, InitializerLines("filesystem", ok)
                           \o (IF ok THEN <<>>
                               ELSE <<Msg("main", "warning", "filesystem")>>))
    /\ pc' = "init_graphics"
    /\ UNCHANGED <<argSystemTable, argImageHandle, gSystemTable, gImageHandle,
                   gBootServices, fwCalls, mapSize, mapKey, status, retval, beats,
                   putsVars, bootVars, printVars, assertVars>>

\* lines 318-321: graphics, failure is a warning
MainInitGraphics_WarnAlways ==
    /\ pc = "init_graphics"
    /\ \E ok \in BOOLEAN :
         /\ CallInitializer("graphics", ok)
         /\ serial' = Puts(serial, InitializerLines("graphics", ok)
                           \o <<Msg("main", "warning", "graphics")>>)
    /\ pc' = "init_hot_services"
    /\ UNCHANGED <<argSystemTable, argImageHandle, gSystemTable, gImageHandle,
                   gBootServices, fwCalls, mapSize, mapKey, status, retval, beats,
                   putsVars, bootVars, printVars, assertVars>>

MainInitGraphics ==
    /\ pc = "init_graphics"
    /\ \E ok \in BOOLEAN :
         /\ CallInitializer("graphics", ok)
         /\ serial' = Puts(serial, InitializerLines("graphics", ok)
                           \o (IF ok THEN <<>>
                               ELSE <<Msg("main", "warning", "graphics")>>))
    /\ pc' = "init_hot_services"
    /\ UNCHANGED <<argSystemTable, argImageHandle, gSystemTable, gImageHandle,
                   gBootServices, fwCalls, mapSize, mapKey, status, retval, beats,
                   putsVars, bootVars, printVars, assertVars>>

\* lines 323-327: hot services, failure returns EFI_DEVICE_ERROR
MainInitHotServices_ContinuePastFatal ==
    /\ pc = "init_hot_services"
    /\ \E ok \in BOOLEAN :
         /\ CallInitializer("hot_services", ok)
         /\ IF ok
            THEN /\ serial' = Puts(serial, InitializerLines("hot_services", ok))
            ELSE /\ serial' = Puts(serial, InitializerLines("hot_services", ok)
                                   \o <<Msg("main", "error", "hot_services")>>)
         /\ pc' = "GetMemoryMap"
         /\ retval' = retval
    /\ UNCHANGED <<argSystemTable, argImageHandle, gSystemTable, gImageHandle,
                   gBootServices, fwCalls, mapSize, mapKey, status, beats, putsVars,
                   bootVars, printVars, assertVars>>

MainInitHotServices_Hangs ==
    /\ pc = "init_hot_services"
    /\ \E ok \in BOOLEAN :
         /\ CallInitializer("hot_services", ok)
         /\ IF ok
            THEN /\ serial' = Puts(serial, InitializerLines("hot_services", ok))
                 /\ pc' = "GetMemoryMap"
            ELSE /\ serial' = Puts(serial, InitializerLines("hot_services", ok)
                                   \o <<Msg("main", "error", "hot_services")>>)
                 /\ pc' = "hang"
         /\ retval' = retval
    /\ UNCHANGED <<argSystemTable, argImageHandle, gSystemTable, gImageHandle,
                   gBootServices, fwCalls, mapSize, mapKey, status, beats, putsVars,
                   bootVars, printVars, assertVars>>

MainInitHotServices ==
    /\ pc = "init_hot_services"
    /\ \E ok \in BOOLEAN :
         /\ CallInitializer("hot_services", ok)
         /\ IF ok
            THEN /\ serial' = Puts(serial, InitializerLines("hot_services", ok))
                 /\ pc' = "GetMemoryMap"
                 /\ retval' = retval
            ELSE /\ serial' = Puts(serial, InitializerLines("hot_services", ok)
                                   \o <<Msg("main", "error", "hot_services")>>)
                 /\ pc' = "returned"
                 /\ retval' = EFI_DEVICE_ERROR
    /\ UNCHANGED <<argSystemTable, argImageHandle, gSystemTable, gImageHandle,
                   gBootServices, fwCalls, mapSize, mapKey, status, beats, putsVars, bootVars, printVars, assertVars>>

\* lines 333-348: the size probe.  The firmware answers with any status st,
\* and writes the size sz and the key k it likes through the out-pointers.
MainGetMemoryMap ==
    /\ pc = "GetMemoryMap"
    /\ \E st \in FwStatus, k \in KeySet, sz \in {0, 1} :
         /\ fwCalls' = Append(fwCalls,
                FwCall("GetMemoryMap", 0, 0, 0, k, st))
         /\ mapSize' = sz
         /\ mapKey' = k
         /\ status' = st
         /\ IF st # EFI_BUFFER_TOO_SMALL
            THEN /\ serial' = Puts(serial, <<Msg("main", "info", "exit_begin"),
                                            Msg("main", "error", "map_size")>>)
                 /\ retval' = st
                 /\ pc' = "returned"
            ELSE /\ serial' = Puts(serial, <<Msg("main", "info", "exit_begin")>>)
                 /\ retval' = retval
                 /\ pc' = "ExitBootServices"
    /\ UNCHANGED <<argSystemTable, argImageHandle, gSystemTable, gImageHandle,
                   gBootServices, invoked, result, beats, putsVars, bootVars, printVars, assertVars>>

\* lines 353-369: the exit call with the key of the probe, then the banner
MainExitBootServices_RetrySameKey ==
    /\ pc = "ExitBootServices"
    /\ \E st \in FwStatus :
         /\ fwCalls' = Append(fwCalls,
                FwCall("ExitBootServices", 0, argImageHandle, mapKey, mapKey, st))
         /\ status' = st
         /\ IF st.lo = 2 /\ Len(fwCalls) < 3
            THEN /\ serial' = serial
                 /\ retval' = retval
                 /\ pc' = "ExitBootServices"
            ELSE IF EFI_ERROR(st)
            THEN /\ serial' = Puts(serial, <<Msg("main", "error", "exit")>>)
                 /\ retval' = st
                 /\ pc' = "returned"
            ELSE /\ serial' = Puts(serial, <<Msg("main", "info", "exited"),
                                            Msg("main", "info", "ready_top"),
                                            Msg("main", "info", "ready_title"),
                                            Msg("main", "info", "ready_loop"),
                                            Msg("main", "info", "ready_bottom")>>)
                 /\ retval' = retval
                 /\ pc' = "loop"
    /\ UNCHANGED <<argSystemTable, argImageHandle, gSystemTable, gImageHandle,
                   gBootServices, invoked, result, mapSize, mapKey, beats,
                   putsVars, bootVars, printVars, assertVars>>

MainExitBootServices ==
    /\ pc = "ExitBootServices"
    /\ \E st \in FwStatus :
         /\ fwCalls' = Append(fwCalls,
                FwCall("ExitBootServices", 0, argImageHandle, mapKey, mapKey, st))
         /\ status' = st
         /\ IF EFI_ERROR(st)
            THEN /\ serial' = Puts(serial, <<Msg("main", "error", "exit")>>)
                 /\ retval' = st
                 /\ pc' = "returned"
            ELSE /\ serial' = Puts(serial, <<Msg("main", "info", "exited"),
                                            Msg("main", "info", "ready_top"),
                                            Msg("main", "info", "ready_title"),
                                            Msg("main", "info", "ready_loop"),
                                            Msg("main", "info", "ready_bottom")>>)
                 /\ retval' = retval
                 /\ pc' = "loop"
    /\ UNCHANGED <<argSystemTable, argImageHandle, gSystemTable, gImageHandle,
                   gBootServices, invoked, result, mapSize, mapKey, beats, putsVars, bootVars, printVars, assertVars>>

\* lines 372-381: one iteration of the loop: the busy wait, then the call
\* debug_putc('.'), which runs at byte level (DebugPutcPoll, DebugPutcWrite)
MainLoop_Returns ==
    /\ pc = "loop"
    /\ ppc = "idle"
    /\ beats < MaxBeats
    /\ pc' = "returned"
    /\ retval' = EFI_SUCCESS
    /\ UNCHANGED <<argSystemTable, argImageHandle, gSystemTable, gImageHandle,
                   gBootServices, invoked, result, serial, fwCalls, mapSize,
                   mapKey, status, beats, putsVars, bootVars, printVars, assertVars>>

MainLoop_QueriesFirmware ==
    /\ pc = "loop"
    /\ ppc = "idle"
    /\ beats < MaxBeats
    /\ beats' = beats + 1
    /\ fwCalls' = Append(fwCalls, FwCall("GetMemoryMap", 0, 0, 0, mapKey, EFI_BUFFER_TOO_SMALL))
    /\ frames' = <<ToChar(46)>>
    /\ ppc' = "poll"
    /\ UNCHANGED <<pc, argSystemTable, argImageHandle, gSystemTable, gImageHandle,
                   gBootServices, invoked, result, serial, mapSize, mapKey,
                   status, retval, str, sp, lsr, tx, bootVars, printVars, assertVars>>

MainLoop ==
    /\ pc = "loop"
    /\ ppc = "idle"
    /\ beats < MaxBeats
    /\ beats' = beats + 1
    /\ frames' = <<ToChar(46)>>
    /\ ppc' = "poll"
    /\ UNCHANGED <<pc, argSystemTable, argImageHandle, gSystemTable, gImageHandle,
                   gBootServices, invoked, result, serial, fwCalls, mapSize, mapKey,
                   status, retval, str, sp, lsr, tx, bootVars, printVars, assertVars>>

(***************************************************************************)
(* _init and _fini, lines 44-70, and the startup code around main.  The    *)
(* startup code (boot/<arch>/uefi_boot.S) calls _init, then main, and      *)
(* _fini if main returns (comments at lines 41-42 and 58-59).              *)
(***************************************************************************)
\* lines 46-52: one iteration of the loop of _init
InitArrayStep_StopAtNull ==
    /\ boot = "_init"
    /\ ip <= Len(initArray)
    /\ IF initArray[ip] # 0
       THEN /\ ctorCalls' = Append(ctorCalls, [at |-> ip, fn |-> initArray[ip]])
            /\ ip' = ip + 1
       ELSE /\ ctorCalls' = ctorCalls
            /\ ip' = Len(initArray) + 1
    /\ UNCHANGED <<boot, initArray, finiArray, dtorCalls, mainVars, putsVars, printVars, assertVars>>

InitArrayStep ==
    /\ boot = "_init"
    /\ ip <= Len(initArray)
    /\ IF initArray[ip] # 0
       THEN ctorCalls' = Append(ctorCalls, [at |-> ip, fn |-> initArray[ip]])
       ELSE ctorCalls' = ctorCalls
    /\ ip' = ip + 1
    /\ UNCHANGED <<boot, initArray, finiArray, dtorCalls, mainVars, putsVars, printVars, assertVars>>

\* lines 63-69: one iteration of the loop of _fini
FiniArrayStep ==
    /\ boot = "_fini"
    /\ ip <= Len(finiArray)
    /\ IF finiArray[ip] # 0
       THEN dtorCalls' = Append(dtorCalls, [at |-> ip, fn |-> finiArray[ip]])
       ELSE dtorCalls' = dtorCalls
    /\ ip' = ip + 1
    /\ UNCHANGED <<boot, initArray, finiArray, ctorCalls, mainVars, putsVars, printVars, assertVars>>

\* startup code: _init has returned, main is called
BootCallMain ==
    /\ boot = "_init"
    /\ ip > Len(initArray)
    /\ pc = "not_called"
    /\ boot' = "main"
    /\ pc' = "entry"
    /\ UNCHANGED <<argSystemTable, argImageHandle, gSystemTable, gImageHandle,
                   gBootServices, invoked, result, serial, fwCalls, mapSize, mapKey,
                   status, retval, beats, initArray, finiArray, ip, ctorCalls,
                   dtorCalls, putsVars, printVars, assertVars>>

\* startup code: main has returned, _fini is called
BootCallFini ==
    /\ boot = "main"
    /\ pc = "returned"
    /\ boot' = "_fini"
    /\ ip' = 1
    /\ UNCHANGED <<initArray, finiArray, ctorCalls, dtorCalls, mainVars, putsVars,
                   printVars, assertVars>>

(***************************************************************************)
(* uefi_print, lines 119-124.  The system table's ConOut may be null.      *)
(***************************************************************************)
ConOutOf(st) == IF st = 1 THEN 21 ELSE 0

\* boot services have been exited: an ExitBootServices call returned EFI_SUCCESS
Exited == \E i \in 1..Len(fwCalls) :
             fwCalls[i].fn = "ExitBootServices" /\ fwCalls[i].status = EFI_SUCCESS

uefi_print ==
    /\ prints < MaxPrints
    /\ prints' = prints + 1
    /\ IF gSystemTable # 0 /\ ConOutOf(gSystemTable) # 0
       THEN conOut' = Append(conOut, [This |-> ConOutOf(gSystemTable),
                                      captured |-> pc \notin {"not_called", "entry"},
                                      exited |-> Exited])
       ELSE conOut' = conOut
    /\ UNCHANGED <<mainVars, putsVars, bootVars, assertVars>>

PutsIdle ==
    /\ str = <<0>>
    /\ sp = 1
    /\ ppc = "idle"
    /\ frames = <<>>
    /\ lsr = 0
    /\ tx = <<>>

(***************************************************************************)
(* kernel_assert, lines 401-427.  Its debug_puts / debug_putc calls are    *)
(* entries of aout: a string by its name, a character by its byte.         *)
(***************************************************************************)
LineStrSize == 16    \* char lineStr[16]
DigitZero == 48      \* '0'
Uninit == -1         \* a slot of lineStr that was never written

\* int arithmetic of C++: the quotient truncates toward zero, the remainder
\* has the sign of the dividend
CQuot(n, d) == IF n >= 0 THEN n \div d ELSE -((-n) \div d)
CRem(n, d) == IF n >= 0 THEN n % d ELSE -((-n) % d)

AssertPuts(text) == [kind |-> "puts", text |-> text, byte |-> 0]
AssertPutc(c) == [kind |-> "putc", text |-> "", byte |-> ToUint8(c)]

\* lines 402-410: the test of the condition, the head of the message
KernelAssertEnter_ReportsAlways ==
    /\ apc = "call"
    /\ aout' = aout \o <<AssertPuts("assert_failed"), AssertPuts(aFile),
                         AssertPuts(":")>>
    /\ ai' = 0
    /\ an' = aLine
    /\ apc' = "convert"
    /\ UNCHANGED <<aCond, aFile, aLine, lineStr, aj, hlts, mainVars, putsVars,
                   bootVars, printVars>>

KernelAssertEnter ==
    /\ apc = "call"
    /\ IF aCond
       THEN /\ apc' = "returned"
            /\ UNCHANGED <<aout, ai, an>>
       ELSE /\ aout' = aout \o <<AssertPuts("assert_failed"), AssertPuts(aFile),
                                 AssertPuts(":")>>
            /\ ai' = 0
            /\ an' = aLine
            /\ apc' = "convert"
    /\ UNCHANGED <<aCond, aFile, aLine, lineStr, aj, hlts, mainVars, putsVars,
                   bootVars, printVars>>

\* lines 411-414: one iteration of the do-while; line 416: j = i - 1
KernelAssertConvert ==
    /\ apc = "convert"
    /\ lineStr' = [lineStr EXCEPT ![ai] = CRem(an, 10) + DigitZero]
    /\ ai' = ai + 1
    /\ an' = CQuot(an, 10)
    /\ IF an' > 0
       THEN /\ apc' = "convert"
            /\ aj' = aj
       ELSE /\ apc' = "emit"
            /\ aj' = ai'  - 1
    /\ UNCHANGED <<aCond, aFile, aLine, aout, hlts, mainVars, putsVars, bootVars,
                   printVars>>

\* lines 416-420: one iteration of the for loop, or its end and the last line
KernelAssertEmit_LowDigitFirst ==
    /\ apc = "emit"
    /\ IF aj >= 0
       THEN /\ aout' = Append(aout, AssertPutc(lineStr[(ai - 1) - aj]))
            /\ aj' = aj - 1
            /\ apc' = "emit"
       ELSE /\ aout' = Append(aout, AssertPuts("halted"))
            /\ aj' = aj
            /\ apc' = "halt"
    /\ UNCHANGED <<aCond, aFile, aLine, lineStr, ai, an, hlts, mainVars, putsVars,
                   bootVars, printVars>>

KernelAssertEmit ==
    /\ apc = "emit"
    /\ IF aj >= 0
       THEN /\ aout' = Append(aout, AssertPutc(lineStr[aj]))
            /\ aj' = aj - 1
            /\ apc' = "emit"
       ELSE /\ aout' = Append(aout, AssertPuts("halted"))
            /\ aj' = aj
            /\ apc' = "halt"
    /\ UNCHANGED <<aCond, aFile, aLine, lineStr, ai, an, hlts, mainVars, putsVars,
                   bootVars, printVars>>

\* lines 423-425: one hlt of the endless loop
KernelAssertHalt ==
    /\ apc = "halt"
    /\ hlts < MaxHlts
    /\ hlts' = hlts + 1
    /\ UNCHANGED <<apc, aCond, aFile, aLine, lineStr, ai, an, aj, aout, mainVars,
                   putsVars, bootVars, printVars>>

AssertIdle ==
    /\ apc = "not_called"
    /\ aCond = TRUE
    /\ aFile = ""
    /\ aLine = 0
    /\ lineStr = [k \in 0..(LineStrSize - 1) |-> Uninit]
    /\ ai = 0
    /\ an = 0
    /\ aj = 0
    /\ aout = <<>>
    /\ hlts = 0

\* the lines kernel_assert is called with: every small one, a negative one,
\* and the ends of the ten-digit range of int
AssertLines == (0..MaxLine) \cup {-7, 999999999, 1000000000, 2147483647}
AssertFiles == {"main.cpp", "k.c"}

\* the linker arrays main is booted with
BootInitArrays == {<<>>, <<0, 1>>}
BootFiniArrays == {<<1>>}

BootIdle ==
    /\ boot = "_init"
    /\ initArray = <<>>
    /\ finiArray = <<>>
    /\ ip = 1
    /\ ctorCalls = <<>>
    /\ dtorCalls = <<>>

PrintIdle ==
    /\ prints = 0
    /\ conOut = <<>>

Init ==
    /\ pc = "not_called"
    /\ argSystemTable \in SystemTables
    /\ argImageHandle \in ImageHandles
    /\ gSystemTable = 0
    /\ gImageHandle = 0
    /\ gBootServices = 0
    /\ invoked = <<>>
    /\ result = [m \in ModuleSet |-> "none"]
    /\ serial = <<>>
    /\ fwCalls = <<>>
    /\ mapSize = 0
    /\ mapKey = 0
    /\ status = EFI_SUCCESS
    /\ retval = NoReturn
    /\ beats = 0
    /\ PutsIdle
    /\ boot = "_init"
    /\ initArray \in BootInitArrays
    /\ finiArray \in BootFiniArrays
    /\ ip = 1
    /\ ctorCalls = <<>>
    /\ dtorCalls = <<>>
    /\ PrintIdle
    /\ AssertIdle

Next ==
    \/ InitArrayStep
    \/ BootCallMain
    \/ MainCapture
    \/ MainInitMemory
    \/ MainInitDevices
    \/ MainInitFileSystem
    \/ MainInitGraphics
    \/ MainInitHotServices
    \/ MainGetMemoryMap
    \/ MainExitBootServices
    \/ MainLoop
    \/ DebugPutcPoll
    \/ DebugPutcWrite
    \/ BootCallFini
    \/ FiniArrayStep

Spec == Init /\ [][Next]_vars

\* main is the only thread of control and keeps being executed: whatever step
\* it stands at is taken (every initializer and firmware call returns, every
\* debug_puts completes), and the busy wait of debug_putc finds the flag set
\* in the end
FairSpec == Spec /\ WF_vars(Next) /\ WF_vars(PollFlagSet)


MainIdle ==
    /\ pc = "not_called"
    /\ argSystemTable = 1
    /\ argImageHandle = 1
    /\ gSystemTable = 0
    /\ gImageHandle = 0
    /\ gBootServices = 0
    /\ invoked = <<>>
    /\ result = [m \in ModuleSet |-> "none"]
    /\ serial = <<>>
    /\ fwCalls = <<>>
    /\ mapSize = 0
    /\ mapKey = 0
    /\ status = EFI_SUCCESS
    /\ retval = NoReturn
    /\ beats = 0

InitPuts ==
    /\ MainIdle
    /\ str \in CStrings
    /\ sp = 1
    /\ ppc = "puts"
    /\ frames = <<>>
    /\ lsr = 0
    /\ tx = <<>>
    /\ BootIdle
    /\ PrintIdle
    /\ AssertIdle

NextPuts ==
    \/ DebugPuts
    \/ DebugPutcPoll
    \/ DebugPutcWrite

SpecPuts == InitPuts /\ [][NextPuts]_vars

\* debug_puts runs on, and the busy wait of debug_putc finds the flag set in the end
FairSpecPuts == SpecPuts /\ WF_vars(NextPuts) /\ WF_vars(PollFlagSet)

\* _init or _fini entered with any arrays of at most MaxArr entries
LinkerArrays == SeqsUpTo({0, 1, 2}, MaxArr)

InitCtors ==
    /\ MainIdle
    /\ PutsIdle
    /\ PrintIdle
    /\ AssertIdle
    /\ boot \in {"_init", "_fini"}
    /\ initArray \in LinkerArrays
    /\ finiArray \in LinkerArrays
    /\ ip = 1
    /\ ctorCalls = <<>>
    /\ dtorCalls = <<>>

NextCtors ==
    \/ InitArrayStep
    \/ FiniArrayStep

SpecCtors == InitCtors /\ [][NextCtors]_vars

\* a run of main in which uefi_print is called at some point
NextPrint ==
    \/ Next
    \/ uefi_print

SpecPrint == Init /\ [][NextPrint]_vars

\* kernel_assert called with any condition, file and line
InitAssert ==
    /\ MainIdle
    /\ PutsIdle
    /\ BootIdle
    /\ PrintIdle
    /\ apc = "call"
    /\ aCond \in BOOLEAN
    /\ aFile \in AssertFiles
    /\ aLine \in AssertLines
    /\ lineStr = [k \in 0..(LineStrSize - 1) |-> Uninit]
    /\ ai = 0
    /\ an = 0
    /\ aj = 0
    /\ aout = <<>>
    /\ hlts = 0

NextAssert ==
    \/ KernelAssertEnter
    \/ KernelAssertConvert
    \/ KernelAssertEmit
    \/ KernelAssertHalt

SpecAssert == InitAssert /\ [][NextAssert]_vars

FairSpecAssert == SpecAssert /\ WF_vars(NextAssert)

(***************************************************************************)
(* Vocabulary of the claims.                                               *)
(***************************************************************************)
FatalModules == {"memory", "hot_services"}
RecoverableModules == {"devices", "filesystem", "graphics"}

\* where main stands when it is about to invoke the initializer of m
CallSite(m) ==
    CASE m = "memory" -> "init_memory_manager"
      [] m = "devices" -> "init_device_drivers"
      [] m = "filesystem" -> "init_file_system"
      [] m = "graphics" -> "init_graphics"
      [] m = "hot_services" -> "init_hot_services"

IndexOf(m) == CHOOSE i \in 1..Len(Modules) : Modules[i] = m

\* main is past the module phase: in the handshake, in the loop, or back in the loader
PastModules == pc \in {"GetMemoryMap", "ExitBootServices", "loop", "returned"}

Warnings == {i \in 1..Len(serial) : serial[i].who = "main" /\ serial[i].kind = "warning"}
FailedRecoverable == {m \in RecoverableModules : result[m] = "fail"}

ExitCalls == {i \in 1..Len(fwCalls) : fwCalls[i].fn = "ExitBootServices"}
MapCalls == {i \in 1..Len(fwCalls) : fwCalls[i].fn = "GetMemoryMap"}

\* a query that succeeded and delivered a snapshot (it was given a buffer) and a key
SnapshotCalls == {i \in MapCalls : fwCalls[i].status = EFI_SUCCESS /\ fwCalls[i].buffer # 0}

\* the stale-key answer of ExitBootServices: EFI_INVALID_PARAMETER, as the header
\* numbers it or with the error bit of the wire contract
StaleKey(st) == st.lo = 2

\* _init / _fini went through arr and made the calls: every non-null entry
\* once, in ascending order, no null entry
InvokedExactly(arr, calls) ==
    /\ \A i \in 1..Len(arr) :
          Cardinality({k \in 1..Len(calls) : calls[k].at = i})
             = (IF arr[i] # 0 THEN 1 ELSE 0)
    /\ \A k \in 1..Len(calls) :
          /\ calls[k].at \in 1..Len(arr)
          /\ calls[k].fn = arr[calls[k].at]
    /\ \A k, l \in 1..Len(calls) : k < l => calls[k].at < calls[l].at
    /\ arr = <<>> => calls = <<>>

AbortSignals == {EFI_OUT_OF_RESOURCES, EFI_DEVICE_ERROR}

(***************************************************************************)
(* C1: when a FATAL module (memory manager, hot services) reports failure, *)
(* it is the last initializer invoked in the run, and main does not go on: *)
(* it has returned to the loader.                                          *)
(***************************************************************************)
C1_NoInitializerAfterFatal ==
    \A i \in 1..Len(invoked) :
        (invoked[i] \in FatalModules /\ result[invoked[i]] = "fail")
            => /\ i = Len(invoked)
               /\ pc = "returned"
               /\ fwCalls = <<>>
               /\ beats = 0

C1_Witness ==
    /\ result["memory"] = "fail"
    /\ invoked = <<"memory">>
    /\ pc = "returned"

(***************************************************************************)
(* C2: when a RECOVERABLE module (devices, filesystem, graphics) reports   *)
(* failure, main goes on to the next module: the next initializer has been *)
(* invoked or main stands at its call, and it is eventually invoked; once   *)
(* memory has succeeded, init_hot_services is eventually called, whatever  *)
(* devices, filesystem and graphics report.                                *)
(***************************************************************************)
C2_NextModuleReached ==
    /\ \A m \in RecoverableModules :
          result[m] = "fail"
            => \/ pc = CallSite(Modules[IndexOf(m) + 1])
               \/ /\ Len(invoked) > IndexOf(m)
                  /\ invoked[IndexOf(m) + 1] = Modules[IndexOf(m) + 1]
    /\ (PastModules /\ result["memory"] = "ok")
            => result["hot_services"] # "none"

C2_RecoverableFailureGoesOn ==
    /\ []C2_NextModuleReached
    /\ \A m \in RecoverableModules :
          (result[m] = "fail") ~> (result[Modules[IndexOf(m) + 1]] # "none")
    /\ (result["memory"] = "ok") ~> (result["hot_services"] # "none")

C2_Witness ==
    /\ result["devices"] = "fail"
    /\ result["filesystem"] = "fail"
    /\ result["graphics"] = "fail"
    /\ invoked = Modules

(***************************************************************************)
(* C3 (as claimed): every ExitBootServices call is preceded by a           *)
(* GetMemoryMap call that returned success and delivered a snapshot and a  *)
(* key, and passes the key of the most recent such call.                   *)
(***************************************************************************)
C3_ExitOnlyAfterSnapshot ==
    \A i \in ExitCalls :
        \E j \in SnapshotCalls :
            /\ j < i
            /\ \A k \in SnapshotCalls : k < i => k <= j
            /\ fwCalls[i].keyIn = fwCalls[j].keyOut

(***************************************************************************)
(* C4 (as claimed): once main has dealt with the answer of an              *)
(* ExitBootServices call that reported a stale key, a new GetMemoryMap     *)
(* query and then an ExitBootServices call with that query's key follow    *)
(* it.                                                                     *)
(***************************************************************************)
C4_StaleKeyRequeries ==
    \A i \in ExitCalls :
        StaleKey(fwCalls[i].status)
            => /\ i + 2 <= Len(fwCalls)
               /\ fwCalls[i + 1].fn = "GetMemoryMap"
               /\ fwCalls[i + 2].fn = "ExitBootServices"
               /\ fwCalls[i + 2].keyIn = fwCalls[i + 1].keyOut

(***************************************************************************)
(* C5 (as claimed): when the size probe answers anything other than        *)
(* EFI_BUFFER_TOO_SMALL, main has returned EFI_DEVICE_ERROR and the probe  *)
(* is the only firmware call of the run.                                   *)
(***************************************************************************)
C5_ProbeFailureIsDeviceError ==
    (fwCalls # <<>> /\ fwCalls[1].status # EFI_BUFFER_TOO_SMALL)
        => /\ pc = "returned"
           /\ retval = EFI_DEVICE_ERROR
           /\ Len(fwCalls) = 1

(***************************************************************************)
(* C6 (as claimed): when ExitBootServices answers a non-success status     *)
(* other than the stale-key status, main has returned EFI_DEVICE_ERROR and *)
(* the loop is not entered.                                                *)
(***************************************************************************)
C6_ExitFailureIsDeviceError ==
    \A i \in ExitCalls :
        (fwCalls[i].status # EFI_SUCCESS /\ ~StaleKey(fwCalls[i].status))
            => /\ pc = "returned"
               /\ retval = EFI_DEVICE_ERROR
               /\ beats = 0

(***************************************************************************)
(* C7: a failing init_memory_manager makes main return                     *)
(* EFI_OUT_OF_RESOURCES, a failing init_hot_services makes it return       *)
(* EFI_DEVICE_ERROR; both at once (nothing is invoked after the failing    *)
(* initializer) and without any firmware call.                             *)
(***************************************************************************)
C7_FatalSignalPerModule ==
    /\ result["memory"] = "fail"
          => /\ pc = "returned"
             /\ retval = EFI_OUT_OF_RESOURCES
             /\ invoked = <<"memory">>
             /\ fwCalls = <<>>
    /\ result["hot_services"] = "fail"
          => /\ pc = "returned"
             /\ retval = EFI_DEVICE_ERROR
             /\ invoked = Modules
             /\ fwCalls = <<>>

C7_Witness ==
    /\ result["hot_services"] = "fail"
    /\ retval = EFI_DEVICE_ERROR
    /\ pc = "returned"

(***************************************************************************)
(* C8 (as claimed): whatever main returns is EFI_OUT_OF_RESOURCES or       *)
(* EFI_DEVICE_ERROR, and main returns nothing before it returns and        *)
(* nothing at all once it is in the loop.                                  *)
(***************************************************************************)
C8_OnlyAbortSignalsReturned ==
    /\ pc = "returned" => retval \in AbortSignals
    /\ pc # "returned" => retval = NoReturn

(***************************************************************************)
(* C9: when memory and hot services succeeded, main is in the exit         *)
(* handshake or beyond it, and the warnings main wrote are exactly one for *)
(* each failed recoverable module and none for the others.                 *)
(***************************************************************************)
C9_OneWarningPerFailedModule ==
    (result["memory"] = "ok" /\ result["hot_services"] = "ok")
        => /\ PastModules
           /\ invoked = Modules
           /\ (pc # "GetMemoryMap" => MapCalls # {})
           /\ Cardinality(Warnings) = Cardinality(FailedRecoverable)
           /\ \A m \in RecoverableModules :
                 Count(serial, Msg("main", "warning", m))
                    = (IF result[m] = "fail" THEN 1 ELSE 0)

C9_Witness ==
    /\ result = [m \in ModuleSet |->
                    IF m \in {"devices", "graphics"} THEN "fail" ELSE "ok"]
    /\ Cardinality(Warnings) = 2
    /\ pc = "GetMemoryMap"


(***************************************************************************)
(* C10: debug_puts writes the bytes of its string in input order, with one *)
(* carriage return right after every line feed and nothing else added or   *)
(* dropped: a string of L bytes with k line feeds gives L + k writes.      *)
(***************************************************************************)
\* the string without its terminator
Chars(s) == SubSeq(s, 1, Len(s) - 1)

\* what the channel is to carry for the bytes q
RECURSIVE WithCarriageReturns(_)
WithCarriageReturns(q) ==
    IF q = <<>> THEN <<>>
    ELSE (IF Head(q) = LF THEN <<LF, CR>> ELSE <<Head(q)>>)
         \o WithCarriageReturns(Tail(q))

IsPrefix(a, b) == Len(a) <= Len(b) /\ SubSeq(b, 1, Len(a)) = a

C10_PutsOrderAndCarriageReturns ==
    /\ IsPrefix(tx, WithCarriageReturns(Chars(str)))
    /\ ppc = "puts" => tx = WithCarriageReturns(SubSeq(str, 1, sp - 1))
    /\ ppc = "done"
          => /\ tx = WithCarriageReturns(Chars(str))
             /\ Len(tx) = Len(Chars(str)) + Count(Chars(str), LF)
             /\ \A i \in 1..Len(tx) :
                   tx[i] = LF => (i < Len(tx) /\ tx[i + 1] = CR)

C10_Witness ==
    /\ ppc = "done"
    /\ str = <<LF, 229, LF, 0>>
    /\ tx = <<LF, CR, 229, LF, CR>>


(***************************************************************************)
(* C11: the initializers invoked so far are always a prefix of the fixed   *)
(* order memory, devices, filesystem, graphics, hot services: memory comes *)
(* first, none is skipped, none is invoked twice.                          *)
(***************************************************************************)
C11_InvokedIsPrefixOfOrder ==
    /\ IsPrefix(invoked, Modules)
    /\ invoked # <<>> => invoked[1] = "memory"
    /\ \A i, j \in 1..Len(invoked) : invoked[i] = invoked[j] => i = j
    /\ \A m \in ModuleSet : result[m] # "none" <=> m \in Range(invoked)

C11_Witness ==
    /\ invoked = Modules
    /\ result["filesystem"] = "fail"

(***************************************************************************)
(* C12: the phases come in one order.  Constructors are done before main   *)
(* starts and none runs later; the first firmware call is the memory-map   *)
(* query, made only when all five modules were invoked and neither fatal   *)
(* module failed; no initializer is invoked after it; the loop is entered  *)
(* only after an exit call, and in the loop no firmware call and no        *)
(* initializer call is made.                                               *)
(***************************************************************************)
C12_PhasesInOrder ==
    /\ pc # "not_called" => boot # "_init"
    /\ boot = "main" => (ip > Len(initArray) /\ InvokedExactly(initArray, ctorCalls))
    /\ pc = "not_called" => (invoked = <<>> /\ fwCalls = <<>> /\ serial = <<>>)
    /\ fwCalls # <<>>
          => /\ invoked = Modules
             /\ result["memory"] = "ok"
             /\ result["hot_services"] = "ok"
             /\ fwCalls[1].fn = "GetMemoryMap"
    /\ (pc = "loop" \/ beats > 0 \/ tx # <<>>) => ExitCalls # {}

C12_PhaseSteps ==
    /\ pc # "not_called" => ctorCalls' = ctorCalls
    /\ fwCalls # <<>> => invoked' = invoked
    /\ pc = "loop" => (pc' = "loop" /\ fwCalls' = fwCalls /\ invoked' = invoked)

C12_TotalPhaseOrder == []C12_PhasesInOrder /\ [][C12_PhaseSteps]_vars

C12_Witness ==
    /\ ctorCalls # <<>>
    /\ invoked = Modules
    /\ Len(fwCalls) = 2
    /\ pc = "loop"
    /\ tx # <<>>

(***************************************************************************)
(* C13: an ExitBootServices call is the last call of the run through the   *)
(* boot-services table, and from then on no OutputString call is made      *)
(* either: what is written afterwards goes to the serial channel.          *)
(***************************************************************************)
C13_ExitIsLastFirmwareCall == \A i \in ExitCalls : i = Len(fwCalls)

C13_NothingAfterExit ==
    ExitCalls # {} => (fwCalls' = fwCalls /\ conOut' = conOut)

C13_NoBootServicesAfterExit ==
    []C13_ExitIsLastFirmwareCall /\ [][C13_NothingAfterExit]_vars

C13_Witness ==
    /\ ExitCalls # {}
    /\ pc = "loop"
    /\ beats = MaxBeats
    /\ Len(tx) = MaxBeats

(***************************************************************************)
(* C14 (as claimed): every OutputString call of uefi_print is made after   *)
(* capture and before boot services were exited.                           *)
(***************************************************************************)
C14_ConsoleOnlyWhileBootServices ==
    \A i \in 1..Len(conOut) : conOut[i].captured /\ ~conOut[i].exited

(***************************************************************************)
(* C15: once in the loop, main stays in it and returns nothing; and, the   *)
(* transmit flag being found set in the end, every iteration that is begun *)
(* gets its heartbeat byte written.                                        *)
(***************************************************************************)
C15_LoopStays == pc = "loop" => (pc' = "loop" /\ retval' = NoReturn /\ boot' = "main")

C15_LoopNeverReturnsAndBeats ==
    /\ [][C15_LoopStays]_vars
    /\ \A n \in 1..MaxBeats :
          (pc = "loop" /\ beats = n) ~> (Len(tx) >= n /\ tx[n] = 46)
    /\ (pc = "loop") ~> (beats = MaxBeats /\ Len(tx) = MaxBeats /\ ppc = "idle")

C15_Witness ==
    /\ pc = "loop"
    /\ beats = MaxBeats
    /\ Len(tx) = MaxBeats
    /\ lsr = 96

(***************************************************************************)
(* C16 (as claimed): main is in the loop only when memory and hot services *)
(* succeeded, the size probe answered EFI_BUFFER_TOO_SMALL and             *)
(* ExitBootServices answered EFI_SUCCESS.                                  *)
(***************************************************************************)
C16_LoopOnlyAfterCleanBoot ==
    pc = "loop"
        => /\ result["memory"] = "ok"
           /\ result["hot_services"] = "ok"
           /\ fwCalls # <<>>
           /\ fwCalls[1].status = EFI_BUFFER_TOO_SMALL
           /\ ExitCalls # {}
           /\ \A i \in ExitCalls : fwCalls[i].status = EFI_SUCCESS

(***************************************************************************)
(* C17: every run reaches one of two ends, main returned or main in the    *)
(* loop, and stays there; a run that returned never was in the loop.       *)
(***************************************************************************)
C17_EndsStay ==
    /\ pc = "returned" => pc' = "returned"
    /\ pc = "loop" => pc' = "loop"

C17_ReturnsOrLoops ==
    /\ <>(pc = "returned" \/ pc = "loop")
    /\ [][C17_EndsStay]_vars
    /\ [](pc = "returned" => (retval # NoReturn /\ beats = 0 /\ tx = <<>>))
    /\ [](pc = "loop" => retval = NoReturn)
    /\ [](pc \in {"not_called", "entry", "init_memory_manager", "init_device_drivers",
                  "init_file_system", "init_graphics", "init_hot_services",
                  "GetMemoryMap", "ExitBootServices", "loop", "returned"})

C17_Witness ==
    /\ pc = "returned"
    /\ ExitCalls # {}
    /\ boot = "_fini"

(***************************************************************************)
(* C18: the transmit flag being found set in the end, every debug_putc     *)
(* call returns and debug_puts returns; debug_putc recurses at most once   *)
(* (for the carriage return after a line feed).                            *)
(***************************************************************************)
C18_PutsCompletes ==
    /\ <>(ppc = "done")
    /\ (ppc \in {"poll", "write"}) ~> (ppc \in {"puts", "done"})
    /\ [](Len(frames) <= 2)
    /\ [](Len(frames) = 2 => (frames[1] = LF /\ frames[2] = CR))
    /\ [](ppc = "done" => sp = Len(str))

C18_Witness ==
    /\ Len(frames) = 2
    /\ ppc = "poll"
    /\ lsr = 64

(***************************************************************************)
(* C19: when _init has gone through its array, it has invoked every        *)
(* non-null entry exactly once, in ascending order, and no null entry;     *)
(* likewise _fini; an empty array gives no invocation.                     *)
(***************************************************************************)
C19_EveryNonNullEntryOnce ==
    /\ (boot = "_init" /\ ip > Len(initArray)) => InvokedExactly(initArray, ctorCalls)
    /\ (boot = "_fini" /\ ip > Len(finiArray)) => InvokedExactly(finiArray, dtorCalls)
    /\ boot = "_init" => (ip <= Len(initArray) + 1 /\ dtorCalls = <<>>)
    /\ boot = "_fini" => (ip <= Len(finiArray) + 1 /\ ctorCalls = <<>>)

C19_Witness ==
    /\ boot = "_init"
    /\ initArray = <<0, 2>>
    /\ ip = 3
    /\ ctorCalls = <<[at |-> 2, fn |-> 2]>>

(***************************************************************************)
(* C20 (as claimed): every failure other than a stale-key exit failure is  *)
(* reported by exactly one line of main on the serial channel, nothing is  *)
(* written to the firmware console, and what failed is not invoked again.  *)
(***************************************************************************)
Reports(about) ==
    Cardinality({i \in 1..Len(serial) :
                    /\ serial[i].who = "main"
                    /\ serial[i].kind \in {"warning", "error"}
                    /\ serial[i].about = about})

C20_EveryFailureReportedOnce ==
    /\ \A m \in ModuleSet :
          result[m] = "fail" => (Reports(m) = 1 /\ Count(invoked, m) = 1)
    /\ (fwCalls # <<>> /\ fwCalls[1].status # EFI_BUFFER_TOO_SMALL)
          => (Reports("map_size") = 1 /\ Cardinality(MapCalls) = 1)
    /\ \A i \in ExitCalls :
          (fwCalls[i].status # EFI_SUCCESS /\ ~StaleKey(fwCalls[i].status))
             => (Reports("exit") = 1 /\ Cardinality(ExitCalls) = 1)
    /\ conOut = <<>>

(***************************************************************************)
(* C21: ExitBootServices is never called a second time without a           *)
(* GetMemoryMap query made after the first call: between any two exit      *)
(* calls of a run lies a query, so no run retries the exit with the key    *)
(* the firmware has already refused.  (main makes one exit call at most,   *)
(* and after an exit call it is in the loop or has returned.)              *)
(***************************************************************************)
C21_NoExitRetryWithoutQuery ==
    /\ \A i, j \in ExitCalls :
          i < j => \E k \in MapCalls : i < k /\ k < j
    /\ \A i, j \in ExitCalls :
          (i < j /\ fwCalls[i].keyIn = fwCalls[j].keyIn)
             => \E k \in MapCalls : i < k /\ k < j
    /\ ExitCalls # {} => pc \in {"loop", "returned"}

\* the firmware has refused the key of the one exit call, and main is done
C21_Witness ==
    /\ \E i \in ExitCalls :
          /\ StaleKey(fwCalls[i].status)
          /\ fwCalls[i].status.hi = 1
          /\ fwCalls[i].keyIn = mapKey
    /\ Cardinality(ExitCalls) = 1
    /\ pc = "returned"

(***************************************************************************)
(* C22: debug_putc writes a byte to the transmit register only after a     *)
(* read of the status register, made after the previous write, showed bit  *)
(* 0x20 set; no byte is written while the last value read has the bit      *)
(* clear; the '\r' written after a '\n' is polled for like any other byte. *)
(***************************************************************************)
C22_WriteOnlyAfterFlagSeen ==
    /\ [](ppc = "write" => FlagSet(lsr))
    /\ [][tx' # tx => (ppc = "write" /\ FlagSet(lsr) /\ Len(tx') = Len(tx) + 1)]_vars
    /\ [][ppc' = "write" => (ppc = "poll" /\ FlagSet(lsr') /\ tx' = tx)]_vars
    /\ [][tx' # tx => ppc' # "write"]_vars

\* the '\r' after a '\n' is about to be written, its own poll having seen the
\* flag after polls that had not
C22_Witness ==
    /\ Len(frames) = 2
    /\ frames[2] = CR
    /\ ppc = "write"
    /\ lsr = 96
    /\ tx = <<LF>>

(***************************************************************************)
(* C23: capture is the first step of main and happens once: before it the  *)
(* three globals are null and main has printed and invoked nothing, after  *)
(* it they hold the system table, the image handle and the boot services   *)
(* of that system table, and no later step writes any of them.             *)
(***************************************************************************)
C23_CaptureFirstAndOnce ==
    /\ [](pc \in {"not_called", "entry"}
            => /\ gSystemTable = 0 /\ gImageHandle = 0 /\ gBootServices = 0
               /\ serial = <<>> /\ invoked = <<>> /\ fwCalls = <<>> /\ tx = <<>>)
    /\ [](pc \notin {"not_called", "entry"}
            => /\ gSystemTable = argSystemTable
               /\ gImageHandle = argImageHandle
               /\ gBootServices = BootServicesOf(argSystemTable))
    /\ [][pc # "entry" => UNCHANGED <<gSystemTable, gImageHandle, gBootServices>>]_vars
    /\ [][pc' # "entry" \/ pc = "not_called"]_vars

\* main is in the loop, the initializers and the handshake behind it
C23_Witness ==
    /\ pc = "loop"
    /\ beats = MaxBeats
    /\ Len(invoked) = 5
    /\ Cardinality(ExitCalls) = 1
    /\ gSystemTable = 2 /\ argSystemTable = 2
    /\ gImageHandle = 1 /\ argImageHandle = 1
    /\ gBootServices = BootServicesOf(2)

(***************************************************************************)
(* C24: kernel_assert with a true condition emits nothing and returns;     *)
(* with a false condition it emits the failure message (head, file name,   *)
(* ':', the characters of the line, last line) once, then halts for ever:  *)
(* it never returns and emits nothing more.                                *)
(***************************************************************************)
AssertPutsCount(text) ==
    Cardinality({i \in 1..Len(aout) : aout[i] = AssertPuts(text)})

C24_AssertReturnsOrHalts ==
    /\ [](aCond => (apc \in {"call", "returned"} /\ aout = <<>> /\ hlts = 0))
    /\ [](~aCond => apc # "returned")
    /\ [](apc = "halt"
            => /\ Len(aout) >= 5
               /\ aout[1] = AssertPuts("assert_failed")
               /\ aout[2] = AssertPuts(aFile)
               /\ aout[3] = AssertPuts(":")
               /\ \A i \in 4..(Len(aout) - 1) : aout[i].kind = "putc"
               /\ aout[Len(aout)] = AssertPuts("halted")
               /\ AssertPutsCount("assert_failed") = 1
               /\ AssertPutsCount(aFile) = 1
               /\ AssertPutsCount("halted") = 1)
    /\ [][apc = "halt" => (apc' = "halt" /\ aout' = aout)]_vars
    /\ [][apc = "returned" => (apc' = "returned" /\ aout' = aout)]_vars
    /\ (aCond /\ apc = "call") ~> (apc = "returned")
    /\ (~aCond /\ apc = "call") ~> (apc = "halt" /\ hlts = MaxHlts)

\* the assertion at k.c:42 has failed, the message is out, the processor
\* has been halted again and again
C24_Witness ==
    /\ ~aCond
    /\ aFile = "k.c"
    /\ aLine = 42
    /\ apc = "halt"
    /\ hlts = MaxHlts
    /\ Len(aout) = 6

(***************************************************************************)
(* C25 (as claimed): EFI_ERROR is false for EFI_SUCCESS and true for every *)
(* non-success code the header defines, so main goes on to the loop after  *)
(* an exit call that returned EFI_SUCCESS and returns the status of an     *)
(* exit call that returned one of the header's error codes.                *)
(***************************************************************************)
HeaderErrorCodes == {St(0, n) : n \in {1, 2, 3, 4, 5, 6, 7, 8, 9, 14, 21}}

C25_HeaderErrorsDetected ==
    /\ (ExitCalls # {} /\ status = EFI_SUCCESS)
          => (~EFI_ERROR(status) /\ pc = "loop")
    /\ (ExitCalls # {} /\ status \in HeaderErrorCodes)
          => (EFI_ERROR(status) /\ pc = "returned" /\ retval = status)

(***************************************************************************)
(* C26: for a line n >= 0 a failing kernel_assert emits the decimal digits *)
(* of n, the most significant first, without leading zeros ("0" for 0);    *)
(* it uses at most 10 slots of lineStr, so the index stays below 16.       *)
(***************************************************************************)
RECURSIVE Decimal(_)
Decimal(n) ==
    IF n < 10 THEN <<n + 48>>
    ELSE Append(Decimal(n \div 10), (n % 10) + 48)

EmittedChars ==
    LET putcs == SelectSeq(aout, LAMBDA e : e.kind = "putc")
    IN  [k \in 1..Len(putcs) |-> putcs[k].byte]

C26_DecimalLineNumber ==
    aLine >= 0 =>
       /\ ai <= 10
       /\ ai < LineStrSize
       /\ apc = "convert" => \A k \in ai..(LineStrSize - 1) : lineStr[k] = Uninit
       /\ IsPrefix(EmittedChars, Decimal(aLine))
       /\ \A k \in 1..Len(EmittedChars) : EmittedChars[k] \in 48..57
       /\ apc = "halt"
            => /\ EmittedChars = Decimal(aLine)
               /\ Len(EmittedChars) = ai
               /\ Len(EmittedChars) <= 10
               /\ (EmittedChars[1] = 48 => (aLine = 0 /\ Len(EmittedChars) = 1))

\* the largest line an int holds has been printed with all its ten digits
C26_Witness ==
    /\ ~aCond
    /\ aLine = 2147483647
    /\ apc = "halt"
    /\ ai = 10
    /\ EmittedChars = <<50, 49, 52, 55, 52, 56, 51, 54, 52, 55>>

====
